---- MODULE Spec2Model ----
(***************************************************************************)
(* LAN8700 Ethernet PHY driver (drivers/phy/lan8700_driver.c).             *)
(*                                                                         *)
(* The driver is a set of five operations the host calls one at a time on  *)
(* a network interface.  The model keeps the fields of the interface the   *)
(* driver touches, the position of the call in progress, and a log of what *)
(* the call in progress did on the register bus and towards the host.      *)
(* The replies of the register bus are inputs: any value of a bounded set. *)
(***************************************************************************)
EXTENDS Integers, Sequences, FiniteSets, TLC

VARIABLES
    hwLink,         \* the link status the medium has settled at
    phyAddr,        \* interface->phyAddr (uint8_t), fixed by the host
    extIntDriver,   \* interface->extIntDriver != NULL
    linkState,      \* interface->linkState
    linkSpeed,      \* interface->linkSpeed
    duplexMode,     \* interface->duplexMode
    phyEvent,       \* interface->phyEvent
    netEvent,       \* the host stack's event object (osSetEvent sets it)
    pc,             \* position of the call in progress
    call,           \* name of the call in progress, "none" between calls
    log,            \* what the call in progress has done so far, in order
    pre,            \* the interface fields as they were when the call began
    result          \* the return value of lan8700Init, "none" otherwise

vars == <<hwLink, phyAddr, extIntDriver, linkState, linkSpeed, duplexMode,
          phyEvent, netEvent, pc, call, log, pre, result>>

----------------------------------------------------------------------------
(* Bounds of the model.                                                    *)

\* Busy-wait reads of the control register the log keeps; further
\* iterations of the loop happen but are not added to the log.
MaxSpin == 2

----------------------------------------------------------------------------
(* Register map and bit masks, as named in the source.  The values are the *)
(* ones of drivers/phy/lan8700_driver.h.                                   *)

LAN8700_PHY_ADDR == 0

LAN8700_PHY_REG_BMCR == 0
LAN8700_PHY_REG_BMSR == 1
LAN8700_PHY_REG_ISR == 29
LAN8700_PHY_REG_IMR == 30
LAN8700_PHY_REG_PSCSR == 31

BMCR_RESET == 32768
BMSR_LINK_STATUS == 4
IMR_AN_COMPLETE == 64
IMR_LINK_DOWN == 16
PSCSR_HCDSPEED_MASK == 28
PSCSR_HCDSPEED_10BT == 4
PSCSR_HCDSPEED_100BTX == 8
PSCSR_HCDSPEED_10BT_FD == 20
PSCSR_HCDSPEED_100BTX_FD == 24

NIC_LINK_SPEED_UNKNOWN == "NIC_LINK_SPEED_UNKNOWN"
NIC_LINK_SPEED_10MBPS == "NIC_LINK_SPEED_10MBPS"
NIC_LINK_SPEED_100MBPS == "NIC_LINK_SPEED_100MBPS"
NIC_UNKNOWN_DUPLEX_MODE == "NIC_UNKNOWN_DUPLEX_MODE"
NIC_HALF_DUPLEX_MODE == "NIC_HALF_DUPLEX_MODE"
NIC_FULL_DUPLEX_MODE == "NIC_FULL_DUPLEX_MODE"

NO_ERROR == "NO_ERROR"

----------------------------------------------------------------------------
(* 16-bit arithmetic of the C code.                                        *)

RECURSIVE AndBits(_, _, _)
AndBits(a, b, n) ==
    IF n = 0 THEN 0
    ELSE (IF a % 2 = 1 /\ b % 2 = 1 THEN 1 ELSE 0)
         + 2 * AndBits(a \div 2, b \div 2, n - 1)

\* a & b on uint16_t
BitAnd(a, b) == AndBits(a, b, 16)

\* a | b on uint16_t
BitOr(a, b) == a + b - BitAnd(a, b)

RECURSIVE SumOf(_)
SumOf(S) ==
    IF S = {} THEN 0
    ELSE LET x == CHOOSE y \in S : TRUE IN x + SumOf(S \ {x})

\* All the values whose set bits are among the masks of 'bits'.
ValuesOver(bits) == {SumOf(S) : S \in SUBSET bits}

----------------------------------------------------------------------------
(* Inputs: what the register bus may reply.  For each register the driver  *)
(* interprets, every combination of the bits it tests and of one bit it    *)
(* does not test.                                                          *)

\* Control register: the reset bit, and bit 12 (auto-negotiation enable).
BmcrReplies == ValuesOver({BMCR_RESET, 4096})
\* Status register: the link status bit, and bit 5 (auto-negotiation done).
BmsrReplies == ValuesOver({BMSR_LINK_STATUS, 32})
\* Interrupt status: the two bits tested, and bit 7 (energy on).
IsrReplies == ValuesOver({IMR_AN_COMPLETE, IMR_LINK_DOWN, 128})
\* Mode register: the three bits of the mode field, and bit 12 (autodone).
PscsrReplies == ValuesOver({4, 8, 16, 4096})

\* Register files the dump of lan8700DumpPhyReg may read: all zeroes, all
\* ones, and one with a different value in each register.
RegImages ==
    { [r \in 0..31 |-> 0], [r \in 0..31 |-> 65535],
      [r \in 0..31 |-> 2049 * r + 1] }

\* Values of interface->phyAddr: in range, the last in range, the first
\* out of range, and the "unset" value of the host.
PhyAddrSamples == {1, 31, 32, 255}

----------------------------------------------------------------------------
(* Register access.  A bus transaction is a record: the operation, the     *)
(* device address and register index handed to the transport, and the data *)
(* written or replied.  For a read, 'ret' is what the function returns.    *)

\* lan8700WritePhyReg handing the configured address to the transport as
\* it is.
WritePhyRegUnchecked(address, data) ==
    [ op      |-> "write",
      phyAddr |-> phyAddr,
      regAddr |-> address,
      data    |-> data ]

lan8700WritePhyReg(address, data) ==
    [ op      |-> "write",
      phyAddr |-> IF phyAddr < 32 THEN phyAddr ELSE LAN8700_PHY_ADDR,
      regAddr |-> address,
      data    |-> data ]

\* lan8700ReadPhyReg with the range test off by one.
ReadPhyRegOffByOne(address, reply) ==
    [ op      |-> "read",
      phyAddr |-> IF phyAddr <= 32 THEN phyAddr ELSE LAN8700_PHY_ADDR,
      regAddr |-> address,
      data    |-> reply,
      ret     |-> reply ]

lan8700ReadPhyReg(address, reply) ==
    [ op      |-> "read",
      phyAddr |-> IF phyAddr < 32 THEN phyAddr ELSE LAN8700_PHY_ADDR,
      regAddr |-> address,
      data    |-> reply,
      ret     |-> reply ]

\* The 32 reads of lan8700DumpPhyReg, of a register file 'img'.
lan8700DumpPhyReg(img) ==
    [k \in 1..32 |-> lan8700ReadPhyReg(k - 1, img[k - 1])]

----------------------------------------------------------------------------
(* Calls towards the host, as entries of the log.  The callbacks that get  *)
(* the interface are logged with the fields they can see at that moment.   *)

ExtIntInit == [op |-> "extIntDriver->init"]
ExtIntEnableIrq == [op |-> "extIntDriver->enableIrq"]
ExtIntDisableIrq == [op |-> "extIntDriver->disableIrq"]
OsSetEvent == [op |-> "osSetEvent"]

UpdateMacConfig(ls, speed, duplex) ==
    [op |-> "updateMacConfig", linkState |-> ls, linkSpeed |-> speed,
     duplexMode |-> duplex]

NicNotifyLinkChange(ls, speed, duplex) ==
    [op |-> "nicNotifyLinkChange", linkState |-> ls, linkSpeed |-> speed,
     duplexMode |-> duplex]

----------------------------------------------------------------------------
(* The state between calls and at the entry of a call.                     *)

Snapshot ==
    [linkState |-> linkState, linkSpeed |-> linkSpeed,
     duplexMode |-> duplexMode, phyEvent |-> phyEvent, netEvent |-> netEvent]

NoSnapshot ==
    [linkState |-> FALSE, linkSpeed |-> NIC_LINK_SPEED_UNKNOWN,
     duplexMode |-> NIC_UNKNOWN_DUPLEX_MODE, phyEvent |-> FALSE,
     netEvent |-> FALSE]

Init ==
    /\ hwLink = FALSE
    /\ phyAddr \in PhyAddrSamples
    /\ extIntDriver \in BOOLEAN
    /\ linkState = FALSE
    /\ linkSpeed = NIC_LINK_SPEED_UNKNOWN
    /\ duplexMode = NIC_UNKNOWN_DUPLEX_MODE
    /\ phyEvent = FALSE
    /\ netEvent = FALSE
    /\ pc = "idle"
    /\ call = "none"
    /\ log = <<>>
    /\ pre = NoSnapshot
    /\ result = "none"

\* The host calls 'name': the entry state is recorded.
Enter(name) ==
    /\ pc = "idle"
    /\ call' = name
    /\ pre' = Snapshot

\* The call returns to the host, which drops what the call left behind.
Return ==
    /\ pc = "ret"
    /\ pc' = "idle"
    /\ call' = "none"
    /\ log' = <<>>
    /\ pre' = NoSnapshot
    /\ result' = "none"
    /\ UNCHANGED <<hwLink, phyAddr, extIntDriver, linkState, linkSpeed, duplexMode,
                   phyEvent, netEvent>>

----------------------------------------------------------------------------
(* lan8700Init                                                             *)

\* Busy-wait reads of the control register in the log.
SpinReads ==
    Cardinality({k \in DOMAIN log :
                    /\ log[k].op = "read"
                    /\ log[k].regAddr = LAN8700_PHY_REG_BMCR})

\* lan8700InitReset writing the reset before it initialises the interrupt
\* line driver.
InitResetBeforeExtInt ==
    /\ Enter("lan8700Init")
    /\ log' = <<lan8700WritePhyReg(LAN8700_PHY_REG_BMCR, BMCR_RESET)>>
              \o (IF extIntDriver THEN <<ExtIntInit>> ELSE <<>>)
    /\ pc' = "init_wait"
    /\ UNCHANGED <<hwLink, phyAddr, extIntDriver, linkState, linkSpeed, duplexMode,
                   phyEvent, netEvent, result>>

\* Initialise the interrupt line driver, then write the soft reset.
lan8700InitReset ==
    /\ Enter("lan8700Init")
    /\ log' = (IF extIntDriver THEN <<ExtIntInit>> ELSE <<>>)
              \o <<lan8700WritePhyReg(LAN8700_PHY_REG_BMCR, BMCR_RESET)>>
    /\ pc' = "init_wait"
    /\ UNCHANGED <<hwLink, phyAddr, extIntDriver, linkState, linkSpeed, duplexMode,
                   phyEvent, netEvent, result>>

\* ResetPending with the test inverted.
ResetPendingInverted(v) == BitAnd(v, BMCR_RESET) = 0

\* Does the wait loop go round again on this value of the control register?
ResetPending(v) == BitAnd(v, BMCR_RESET) # 0

\* One iteration of the wait loop, the control register reading 'reply'.
InitWaitOn(reply) ==
    /\ pc = "init_wait"
    /\ LET tx == lan8700ReadPhyReg(LAN8700_PHY_REG_BMCR, reply) IN
       IF ResetPending(tx.ret)
       THEN /\ pc' = "init_wait"
            /\ log' = IF SpinReads < MaxSpin THEN Append(log, tx) ELSE log
       ELSE /\ pc' = "init_dump"
            /\ log' = Append(log, tx)
    /\ UNCHANGED <<hwLink, phyAddr, extIntDriver, linkState, linkSpeed, duplexMode,
                   phyEvent, netEvent, call, pre, result>>

lan8700InitWait == \E reply \in BmcrReplies : InitWaitOn(reply)

\* Dump the registers.
lan8700InitDump ==
    /\ pc = "init_dump"
    /\ \E img \in RegImages : log' = log \o lan8700DumpPhyReg(img)
    /\ pc' = "init_imr"
    /\ UNCHANGED <<hwLink, phyAddr, extIntDriver, linkState, linkSpeed, duplexMode,
                   phyEvent, netEvent, call, pre, result>>

\* lan8700InitImr enabling the link-down interrupt only.
InitImrLinkDownOnly ==
    /\ pc = "init_imr"
    /\ log' = Append(log, lan8700WritePhyReg(LAN8700_PHY_REG_IMR,
                              IMR_LINK_DOWN))
    /\ pc' = "init_event"
    /\ UNCHANGED <<hwLink, phyAddr, extIntDriver, linkState, linkSpeed, duplexMode,
                   phyEvent, netEvent, call, pre, result>>

\* Program the interrupt mask.
lan8700InitImr ==
    /\ pc = "init_imr"
    /\ log' = Append(log, lan8700WritePhyReg(LAN8700_PHY_REG_IMR,
                              BitOr(IMR_AN_COMPLETE, IMR_LINK_DOWN)))
    /\ pc' = "init_event"
    /\ UNCHANGED <<hwLink, phyAddr, extIntDriver, linkState, linkSpeed, duplexMode,
                   phyEvent, netEvent, call, pre, result>>

\* Raise the event flag, signal the host and return.
lan8700InitEvent ==
    /\ pc = "init_event"
    /\ phyEvent' = TRUE
    /\ netEvent' = TRUE
    /\ log' = Append(log, OsSetEvent)
    /\ result' = NO_ERROR
    /\ pc' = "ret"
    /\ UNCHANGED <<hwLink, phyAddr, extIntDriver, linkState, linkSpeed, duplexMode,
                   call, pre>>

----------------------------------------------------------------------------
(* lan8700Tick                                                             *)

\* The link state a value of the basic status register shows.
LinkStatusOf(v) == BitAnd(v, BMSR_LINK_STATUS) # 0

\* TickEvent without the "Link down event?" branch.
TickEventUpOnly(ls, stored) == ls /\ ~stored

\* "Link up event?" or "Link down event?"
TickEvent(ls, stored) == (ls /\ ~stored) \/ (~ls /\ stored)

\* lan8700Tick storing the link state it read.
TickStoringLinkState ==
    /\ Enter("lan8700Tick")
    /\ IF ~extIntDriver
       THEN \E reply \in BmsrReplies :
              LET tx == lan8700ReadPhyReg(LAN8700_PHY_REG_BMSR, reply) IN
              /\ linkState' = LinkStatusOf(tx.ret)
              /\ IF TickEvent(LinkStatusOf(tx.ret), linkState)
                 THEN /\ phyEvent' = TRUE
                      /\ netEvent' = TRUE
                      /\ log' = <<tx, OsSetEvent>>
                 ELSE /\ log' = <<tx>>
                      /\ UNCHANGED <<phyEvent, netEvent>>
       ELSE /\ log' = <<>>
            /\ UNCHANGED <<linkState, phyEvent, netEvent>>
    /\ pc' = "ret"
    /\ UNCHANGED <<hwLink, phyAddr, extIntDriver, linkSpeed, duplexMode, result>>

\* lan8700Tick polling whether or not an interrupt line driver is there.
TickAlwaysPolling ==
    /\ Enter("lan8700Tick")
    /\ \E reply \in BmsrReplies :
         LET tx == lan8700ReadPhyReg(LAN8700_PHY_REG_BMSR, reply) IN
         IF TickEvent(LinkStatusOf(tx.ret), linkState)
         THEN /\ phyEvent' = TRUE
              /\ netEvent' = TRUE
              /\ log' = <<tx, OsSetEvent>>
         ELSE /\ log' = <<tx>>
              /\ UNCHANGED <<phyEvent, netEvent>>
    /\ pc' = "ret"
    /\ UNCHANGED <<hwLink, phyAddr, extIntDriver, linkState, linkSpeed, duplexMode,
                   result>>

lan8700Tick ==
    /\ Enter("lan8700Tick")
    /\ IF ~extIntDriver
       THEN \E reply \in BmsrReplies :
              LET tx == lan8700ReadPhyReg(LAN8700_PHY_REG_BMSR, reply) IN
              IF TickEvent(LinkStatusOf(tx.ret), linkState)
              THEN /\ phyEvent' = TRUE
                   /\ netEvent' = TRUE
                   /\ log' = <<tx, OsSetEvent>>
              ELSE /\ log' = <<tx>>
                   /\ UNCHANGED <<phyEvent, netEvent>>
       ELSE /\ log' = <<>>
            /\ UNCHANGED <<phyEvent, netEvent>>
    /\ pc' = "ret"
    /\ UNCHANGED <<hwLink, phyAddr, extIntDriver, linkState, linkSpeed, duplexMode,
                   result>>

----------------------------------------------------------------------------
(* lan8700EnableIrq, lan8700DisableIrq                                     *)

lan8700EnableIrq ==
    /\ Enter("lan8700EnableIrq")
    /\ log' = IF extIntDriver THEN <<ExtIntEnableIrq>> ELSE <<>>
    /\ pc' = "ret"
    /\ UNCHANGED <<hwLink, phyAddr, extIntDriver, linkState, linkSpeed, duplexMode,
                   phyEvent, netEvent, result>>

\* lan8700DisableIrq calling the enable operation of the interrupt line.
DisableIrqEnabling ==
    /\ Enter("lan8700DisableIrq")
    /\ log' = IF extIntDriver THEN <<ExtIntEnableIrq>> ELSE <<>>
    /\ pc' = "ret"
    /\ UNCHANGED <<hwLink, phyAddr, extIntDriver, linkState, linkSpeed, duplexMode,
                   phyEvent, netEvent, result>>

lan8700DisableIrq ==
    /\ Enter("lan8700DisableIrq")
    /\ log' = IF extIntDriver THEN <<ExtIntDisableIrq>> ELSE <<>>
    /\ pc' = "ret"
    /\ UNCHANGED <<hwLink, phyAddr, extIntDriver, linkState, linkSpeed, duplexMode,
                   phyEvent, netEvent, result>>

----------------------------------------------------------------------------
(* lan8700EventHandler                                                     *)

\* LinkStatusChange taking any interrupt source for a link status change.
LinkStatusChangeAnyBit(isr) == isr # 0

\* "Link status change?": the test on the interrupt status register.
LinkStatusChange(isr) ==
    BitAnd(isr, BitOr(IMR_AN_COMPLETE, IMR_LINK_DOWN)) # 0

\* BmsrValue keeping the first read.
BmsrValueFirst(first, second) == first

\* 'value' after the two reads of the basic status register.
BmsrValue(first, second) == second

\* HcdSpeed with the duplex modes of the two 100BASE-TX cases exchanged.
HcdSpeedSwapped(pscsr, speed, duplex) ==
    LET mode == BitAnd(pscsr, PSCSR_HCDSPEED_MASK) IN
    CASE mode = PSCSR_HCDSPEED_10BT ->
           <<NIC_LINK_SPEED_10MBPS, NIC_HALF_DUPLEX_MODE>>
      [] mode = PSCSR_HCDSPEED_10BT_FD ->
           <<NIC_LINK_SPEED_10MBPS, NIC_FULL_DUPLEX_MODE>>
      [] mode = PSCSR_HCDSPEED_100BTX ->
           <<NIC_LINK_SPEED_100MBPS, NIC_FULL_DUPLEX_MODE>>
      [] mode = PSCSR_HCDSPEED_100BTX_FD ->
           <<NIC_LINK_SPEED_100MBPS, NIC_HALF_DUPLEX_MODE>>
      [] OTHER -> <<speed, duplex>>

\* HcdSpeed whose default case clears the speed and the duplex mode.
HcdSpeedClearing(pscsr, speed, duplex) ==
    LET mode == BitAnd(pscsr, PSCSR_HCDSPEED_MASK) IN
    CASE mode = PSCSR_HCDSPEED_10BT ->
           <<NIC_LINK_SPEED_10MBPS, NIC_HALF_DUPLEX_MODE>>
      [] mode = PSCSR_HCDSPEED_10BT_FD ->
           <<NIC_LINK_SPEED_10MBPS, NIC_FULL_DUPLEX_MODE>>
      [] mode = PSCSR_HCDSPEED_100BTX ->
           <<NIC_LINK_SPEED_100MBPS, NIC_HALF_DUPLEX_MODE>>
      [] mode = PSCSR_HCDSPEED_100BTX_FD ->
           <<NIC_LINK_SPEED_100MBPS, NIC_FULL_DUPLEX_MODE>>
      [] OTHER -> <<NIC_LINK_SPEED_UNKNOWN, NIC_UNKNOWN_DUPLEX_MODE>>

\* The switch on the operation mode: the <<linkSpeed, duplexMode>> it
\* leaves in the interface that held <<speed, duplex>>.
HcdSpeed(pscsr, speed, duplex) ==
    LET mode == BitAnd(pscsr, PSCSR_HCDSPEED_MASK) IN
    CASE mode = PSCSR_HCDSPEED_10BT ->
           <<NIC_LINK_SPEED_10MBPS, NIC_HALF_DUPLEX_MODE>>
      [] mode = PSCSR_HCDSPEED_10BT_FD ->
           <<NIC_LINK_SPEED_10MBPS, NIC_FULL_DUPLEX_MODE>>
      [] mode = PSCSR_HCDSPEED_100BTX ->
           <<NIC_LINK_SPEED_100MBPS, NIC_HALF_DUPLEX_MODE>>
      [] mode = PSCSR_HCDSPEED_100BTX_FD ->
           <<NIC_LINK_SPEED_100MBPS, NIC_FULL_DUPLEX_MODE>>
      [] OTHER -> <<speed, duplex>>

\* LinkUpBranch adjusting the MAC before it stores what it decoded.
LinkUpBranchMacEarly(ps) ==
    LET tx == lan8700ReadPhyReg(LAN8700_PHY_REG_PSCSR, ps)
        sd == HcdSpeed(tx.ret, linkSpeed, duplexMode)
    IN  [ linkState  |-> TRUE,
          linkSpeed  |-> sd[1],
          duplexMode |-> sd[2],
          log        |-> <<tx, UpdateMacConfig(linkState, linkSpeed,
                                               duplexMode)>> ]

\* LinkUpBranch leaving the MAC alone when the mode is not a valid one.
LinkUpBranchSkippingMac(ps) ==
    LET tx == lan8700ReadPhyReg(LAN8700_PHY_REG_PSCSR, ps)
        sd == HcdSpeed(tx.ret, linkSpeed, duplexMode)
        known == BitAnd(tx.ret, PSCSR_HCDSPEED_MASK) \in
                   {PSCSR_HCDSPEED_10BT, PSCSR_HCDSPEED_10BT_FD,
                    PSCSR_HCDSPEED_100BTX, PSCSR_HCDSPEED_100BTX_FD}
    IN  [ linkState  |-> TRUE,
          linkSpeed  |-> sd[1],
          duplexMode |-> sd[2],
          log        |-> IF known
                         THEN <<tx, UpdateMacConfig(TRUE, sd[1], sd[2])>>
                         ELSE <<tx>> ]

\* The branch "Link is up": read the mode, store speed and duplex, set the
\* link state, then adjust the MAC.
LinkUpBranch(ps) ==
    LET tx == lan8700ReadPhyReg(LAN8700_PHY_REG_PSCSR, ps)
        sd == HcdSpeed(tx.ret, linkSpeed, duplexMode)
    IN  [ linkState  |-> TRUE,
          linkSpeed  |-> sd[1],
          duplexMode |-> sd[2],
          log        |-> <<tx, UpdateMacConfig(TRUE, sd[1], sd[2])>> ]

\* LinkDownBranch resetting the speed and the duplex mode.
LinkDownBranchClearing ==
    [ linkState  |-> FALSE,
      linkSpeed  |-> NIC_LINK_SPEED_UNKNOWN,
      duplexMode |-> NIC_UNKNOWN_DUPLEX_MODE,
      log        |-> <<>> ]

\* The branch "else": only the link state is written.
LinkDownBranch ==
    [ linkState  |-> FALSE,
      linkSpeed  |-> linkSpeed,
      duplexMode |-> duplexMode,
      log        |-> <<>> ]

\* LinkChangeDone reading the interrupt status once more before it
\* notifies the host.
LinkChangeDoneReadingAgain(head, b) ==
    /\ linkState' = b.linkState
    /\ linkSpeed' = b.linkSpeed
    /\ duplexMode' = b.duplexMode
    /\ log' = head \o b.log
              \o <<lan8700ReadPhyReg(LAN8700_PHY_REG_ISR, 0),
                   NicNotifyLinkChange(b.linkState, b.linkSpeed,
                                       b.duplexMode)>>

\* LinkChangeDone notifying the host only when the link state changed.
LinkChangeDoneOnChange(head, b) ==
    /\ linkState' = b.linkState
    /\ linkSpeed' = b.linkSpeed
    /\ duplexMode' = b.duplexMode
    /\ log' = head \o b.log
              \o (IF b.linkState # linkState
                  THEN <<NicNotifyLinkChange(b.linkState, b.linkSpeed,
                                             b.duplexMode)>>
                  ELSE <<>>)

\* The end of the "Link status change?" block, after branch 'b'.
LinkChangeDone(head, b) ==
    /\ linkState' = b.linkState
    /\ linkSpeed' = b.linkSpeed
    /\ duplexMode' = b.duplexMode
    /\ log' = head \o b.log
              \o <<NicNotifyLinkChange(b.linkState, b.linkSpeed, b.duplexMode)>>

lan8700EventHandler ==
    /\ Enter("lan8700EventHandler")
    /\ \E isr \in IsrReplies :
         LET t0 == lan8700ReadPhyReg(LAN8700_PHY_REG_ISR, isr) IN
         IF LinkStatusChange(t0.ret)
         THEN \E b1 \in BmsrReplies, b2 \in BmsrReplies :
                LET t1 == lan8700ReadPhyReg(LAN8700_PHY_REG_BMSR, b1)
                    t2 == lan8700ReadPhyReg(LAN8700_PHY_REG_BMSR, b2)
                    head == <<t0, t1, t2>>
                IN  IF LinkStatusOf(BmsrValue(t1.ret, t2.ret))
                    THEN \E ps \in PscsrReplies :
                           LinkChangeDone(head, LinkUpBranch(ps))
                    ELSE LinkChangeDone(head, LinkDownBranch)
         ELSE /\ log' = <<t0>>
              /\ UNCHANGED <<linkState, linkSpeed, duplexMode>>
    /\ pc' = "ret"
    /\ UNCHANGED <<hwLink, phyAddr, extIntDriver, phyEvent, netEvent, result>>

----------------------------------------------------------------------------
(* The host.  It waits on the event object, and clears the event flag of   *)
(* the interface when it has taken note of it.                             *)

HostWaitEvent ==
    /\ pc = "idle"
    /\ netEvent
    /\ netEvent' = FALSE
    /\ UNCHANGED <<hwLink, phyAddr, extIntDriver, linkState, linkSpeed, duplexMode,
                   phyEvent, pc, call, log, pre, result>>

HostClearPhyEvent ==
    /\ pc = "idle"
    /\ phyEvent
    /\ phyEvent' = FALSE
    /\ UNCHANGED <<hwLink, phyAddr, extIntDriver, linkState, linkSpeed, duplexMode,
                   netEvent, pc, call, log, pre, result>>

----------------------------------------------------------------------------

Next ==
    \/ lan8700InitReset
    \/ lan8700InitWait
    \/ lan8700InitDump
    \/ lan8700InitImr
    \/ lan8700InitEvent
    \/ lan8700Tick
    \/ lan8700EnableIrq
    \/ lan8700DisableIrq
    \/ lan8700EventHandler
    \/ Return
    \/ HostWaitEvent
    \/ HostClearPhyEvent

Spec == Init /\ [][Next]_vars

\* The wait loop iteration in which the device shows the reset done.
ResetCleared ==
    \E reply \in {r \in BmcrReplies : BitAnd(r, BMCR_RESET) = 0} :
        InitWaitOn(reply)

\* The calls of lan8700Init alone, the host consuming the events between
\* them.
InitNext ==
    \/ lan8700InitReset
    \/ lan8700InitWait
    \/ lan8700InitDump
    \/ lan8700InitImr
    \/ lan8700InitEvent
    \/ Return
    \/ HostWaitEvent
    \/ HostClearPhyEvent

\* The processor goes on executing lan8700Init, and the device ends its
\* reset.
FairSpec ==
    /\ Init
    /\ [][InitNext]_vars
    /\ WF_vars(ResetCleared)
    /\ WF_vars(lan8700InitDump)
    /\ WF_vars(lan8700InitImr)
    /\ WF_vars(lan8700InitEvent)

----------------------------------------------------------------------------
(* The register accessors on their own, for every value of the configured  *)
(* address.                                                                *)

RegSamples == {LAN8700_PHY_REG_BMCR, LAN8700_PHY_REG_PSCSR}
DataSamples == {0, 65535}

AddrInit ==
    /\ hwLink = FALSE
    /\ phyAddr \in 0..255
    /\ extIntDriver = FALSE
    /\ linkState = FALSE
    /\ linkSpeed = NIC_LINK_SPEED_UNKNOWN
    /\ duplexMode = NIC_UNKNOWN_DUPLEX_MODE
    /\ phyEvent = FALSE
    /\ netEvent = FALSE
    /\ pc = "idle"
    /\ call = "none"
    /\ log = <<>>
    /\ pre = NoSnapshot
    /\ result = "none"

\* The log keeps the last read and the last write.
WriteAccess ==
    /\ \E address \in RegSamples, data \in DataSamples :
         log' = SelectSeq(log, LAMBDA e : e.op = "read")
                \o <<lan8700WritePhyReg(address, data)>>
    /\ call' = "lan8700WritePhyReg"
    /\ UNCHANGED <<hwLink, phyAddr, extIntDriver, linkState, linkSpeed, duplexMode,
                   phyEvent, netEvent, pc, pre, result>>

ReadAccess ==
    /\ \E address \in RegSamples, reply \in DataSamples :
         log' = SelectSeq(log, LAMBDA e : e.op = "write")
                \o <<lan8700ReadPhyReg(address, reply)>>
    /\ call' = "lan8700ReadPhyReg"
    /\ UNCHANGED <<hwLink, phyAddr, extIntDriver, linkState, linkSpeed, duplexMode,
                   phyEvent, netEvent, pc, pre, result>>

AddrNext == WriteAccess \/ ReadAccess

AddrSpec == AddrInit /\ [][AddrNext]_vars

----------------------------------------------------------------------------
(* Poll mode with a settled link.  lan8700Init has returned on an          *)
(* interface without interrupt line driver, and the medium has settled at  *)
(* a link status that is not the stored one.  The host goes on calling the *)
(* tick, and calls the event handler when the event flag is set, clearing  *)
(* the flag when the handler is done.  The status register shows the       *)
(* settled link to the tick and to the second read of the handler; the     *)
(* interrupt status is whatever the device replies.                        *)

PollInit ==
    /\ hwLink \in BOOLEAN
    /\ phyAddr = LAN8700_PHY_ADDR
    /\ extIntDriver = FALSE
    /\ linkState = ~hwLink
    /\ linkSpeed = IF hwLink THEN NIC_LINK_SPEED_UNKNOWN
                             ELSE NIC_LINK_SPEED_100MBPS
    /\ duplexMode = IF hwLink THEN NIC_UNKNOWN_DUPLEX_MODE
                              ELSE NIC_FULL_DUPLEX_MODE
    /\ phyEvent = TRUE
    /\ netEvent = TRUE
    /\ pc = "idle"
    /\ call = "none"
    /\ log = <<>>
    /\ pre = NoSnapshot
    /\ result = "none"

\* Bit 2 of the reply logged at position k after the step shows the
\* settled link.
ShowsSettledLink(k) ==
    (log'[k].data \div BMSR_LINK_STATUS) % 2 = (IF hwLink THEN 1 ELSE 0)

PollTick ==
    /\ lan8700Tick
    /\ ShowsSettledLink(1)

PollHandler ==
    /\ phyEvent
    /\ lan8700EventHandler
    /\ Len(log') >= 3 => ShowsSettledLink(3)

\* The handler is done: the host clears the event flag.
PollClear ==
    /\ pc = "ret"
    /\ call = "lan8700EventHandler"
    /\ phyEvent
    /\ phyEvent' = FALSE
    /\ UNCHANGED <<hwLink, phyAddr, extIntDriver, linkState, linkSpeed,
                   duplexMode, netEvent, pc, call, log, pre, result>>

PollReturn ==
    /\ ~(call = "lan8700EventHandler" /\ phyEvent)
    /\ Return

PollNext ==
    \/ PollTick
    \/ PollHandler
    \/ PollClear
    \/ PollReturn

\* The host loop makes every one of its steps again and again.
PollSpec ==
    /\ PollInit
    /\ [][PollNext]_vars
    /\ SF_vars(PollTick)
    /\ SF_vars(PollHandler)
    /\ WF_vars(PollClear)
    /\ WF_vars(PollReturn)

----------------------------------------------------------------------------
(* Properties.  They are stated on the state in which a call is about to   *)
(* return: the log then holds everything the call did, and 'pre' the       *)
(* interface as the call found it.                                         *)

AtReturnOf(name) == pc = "ret" /\ call = name

\* Is the bit of the one-bit mask 'mask' set in v?
HasBit(v, mask) == (v \div mask) % 2 = 1

\* The positions of the log that hold an operation 'op'.
Ops(op) == {k \in DOMAIN log : log[k].op = op}

\* The positions of the log that hold a read of register 'reg'.
ReadsOf(reg) ==
    {k \in DOMAIN log : log[k].op = "read" /\ log[k].regAddr = reg}

\* The call polled the basic status register: the poll path of the tick.
TickPolled ==
    /\ AtReturnOf("lan8700Tick")
    /\ ~extIntDriver

\* C1: on the poll path of lan8700Tick the event flag is set and the host
\* event signalled if and only if the link status bit of the status register
\* read in the call differs from the link state stored before the call.
TickSignalsIffLinkDiffers ==
    TickPolled =>
        /\ Len(log) >= 1
        /\ log[1].op = "read"
        /\ log[1].regAddr = LAN8700_PHY_REG_BMSR
        /\ LET differs ==
                 HasBit(log[1].data, BMSR_LINK_STATUS) # pre.linkState
           IN  /\ (Ops("osSetEvent") # {}) <=> differs
               /\ differs => phyEvent /\ netEvent
               /\ ~differs => /\ phyEvent = pre.phyEvent
                              /\ netEvent = pre.netEvent

\* A tick that found the link down while the interface held it up, and
\* signalled the host.
TickSawLinkDown ==
    /\ TickPolled
    /\ pre.linkState
    /\ ~pre.phyEvent
    /\ ~HasBit(log[1].data, BMSR_LINK_STATUS)
    /\ phyEvent
    /\ Ops("osSetEvent") # {}

\* The event handler found a relevant bit in the interrupt status.
HandlerSawChange ==
    /\ AtReturnOf("lan8700EventHandler")
    /\ \/ HasBit(log[1].data, IMR_AN_COMPLETE)
       \/ HasBit(log[1].data, IMR_LINK_DOWN)

\* C2: when the interrupt status has the auto-negotiation-complete or the
\* link-down bit, the handler reads the basic status register exactly twice,
\* one read right after the other, before it decides, and the link state it
\* stores is the link status bit of the second read.
HandlerReadsStatusTwice ==
    HandlerSawChange =>
        /\ ReadsOf(LAN8700_PHY_REG_BMSR) = {2, 3}
        /\ linkState = HasBit(log[3].data, BMSR_LINK_STATUS)
        /\ \A k \in DOMAIN log :
             log[k].op \in {"updateMacConfig", "nicNotifyLinkChange"} => k > 3
        /\ ReadsOf(LAN8700_PHY_REG_PSCSR) \subseteq {4}

\* The first read showed the link down, the second showed it up, and the
\* handler stored "up".
HandlerIgnoredFirstRead ==
    /\ HandlerSawChange
    /\ ~HasBit(log[2].data, BMSR_LINK_STATUS)
    /\ HasBit(log[3].data, BMSR_LINK_STATUS)
    /\ linkState

\* The handler found the link up: it read the mode register.
HandlerFoundLinkUp ==
    /\ HandlerSawChange
    /\ HasBit(log[3].data, BMSR_LINK_STATUS)

\* The mode field (bits 4..2) of a value of the mode register.
ModeField(v) == ((v \div 4) % 8) * 4

ValidModes ==
    {PSCSR_HCDSPEED_10BT, PSCSR_HCDSPEED_10BT_FD, PSCSR_HCDSPEED_100BTX,
     PSCSR_HCDSPEED_100BTX_FD}

\* C3: when the handler finds the link up, the speed and duplex mode stored
\* are the ones of the table for the mode field of the mode register read
\* in the call, whatever the other bits of the register.
HandlerStoresTableValue ==
    HandlerFoundLinkUp =>
        /\ ReadsOf(LAN8700_PHY_REG_PSCSR) = {4}
        /\ LET mode == ModeField(log[4].data) IN
           /\ mode = PSCSR_HCDSPEED_10BT =>
                /\ linkSpeed = NIC_LINK_SPEED_10MBPS
                /\ duplexMode = NIC_HALF_DUPLEX_MODE
           /\ mode = PSCSR_HCDSPEED_10BT_FD =>
                /\ linkSpeed = NIC_LINK_SPEED_10MBPS
                /\ duplexMode = NIC_FULL_DUPLEX_MODE
           /\ mode = PSCSR_HCDSPEED_100BTX =>
                /\ linkSpeed = NIC_LINK_SPEED_100MBPS
                /\ duplexMode = NIC_HALF_DUPLEX_MODE
           /\ mode = PSCSR_HCDSPEED_100BTX_FD =>
                /\ linkSpeed = NIC_LINK_SPEED_100MBPS
                /\ duplexMode = NIC_FULL_DUPLEX_MODE

\* The handler decoded 100BASE-TX half duplex from a register that had
\* another bit set, over an interface that held 10 Mbps full duplex.
HandlerDecoded100Half ==
    /\ HandlerFoundLinkUp
    /\ log[4].data = PSCSR_HCDSPEED_100BTX + 4096
    /\ pre.linkSpeed = NIC_LINK_SPEED_10MBPS
    /\ pre.duplexMode = NIC_FULL_DUPLEX_MODE
    /\ linkSpeed = NIC_LINK_SPEED_100MBPS
    /\ duplexMode = NIC_HALF_DUPLEX_MODE

\* C4: when the handler finds the link up and the mode field is none of the
\* four encodings, the speed and duplex mode stored are the ones the call
\* found, and the handler carries on to its end: link state up, MAC
\* adjusted, host notified.
HandlerKeepsSpeedOnInvalidMode ==
    (HandlerFoundLinkUp /\ ModeField(log[4].data) \notin ValidModes) =>
        /\ linkSpeed = pre.linkSpeed
        /\ duplexMode = pre.duplexMode
        /\ linkState
        /\ Len(log) = 6
        /\ log[5].op = "updateMacConfig"
        /\ log[6].op = "nicNotifyLinkChange"

\* An invalid mode read over an interface that held 100 Mbps full duplex.
HandlerSawInvalidMode ==
    /\ HandlerFoundLinkUp
    /\ ModeField(log[4].data) \notin ValidModes
    /\ pre.linkSpeed = NIC_LINK_SPEED_100MBPS
    /\ pre.duplexMode = NIC_FULL_DUPLEX_MODE
    /\ linkSpeed = NIC_LINK_SPEED_100MBPS

\* The bus transactions of the log.
BusOps == {k \in DOMAIN log : log[k].op \in {"read", "write"}}

\* C5: a register access uses the configured address when it is in 0..31
\* and LAN8700_PHY_ADDR when it is 32 or more; reads and writes agree.
AccessUsesResolvedAddress ==
    /\ \A k \in BusOps :
         /\ phyAddr \in 0..31 => log[k].phyAddr = phyAddr
         /\ phyAddr >= 32 => log[k].phyAddr = LAN8700_PHY_ADDR
    /\ \A j \in BusOps, k \in BusOps : log[j].phyAddr = log[k].phyAddr

\* A write and a read made with the first address out of range: both went
\* to the default address.
AccessFellBackToDefault ==
    /\ phyAddr = 32
    /\ Len(log) = 2
    /\ {log[1].op, log[2].op} = {"read", "write"}
    /\ log[1].phyAddr = LAN8700_PHY_ADDR
    /\ log[2].phyAddr = LAN8700_PHY_ADDR

\* The event handler found no relevant bit in the interrupt status.
HandlerSawNoChange ==
    /\ AtReturnOf("lan8700EventHandler")
    /\ ~HasBit(log[1].data, IMR_AN_COMPLETE)
    /\ ~HasBit(log[1].data, IMR_LINK_DOWN)

\* C6: when the interrupt status has neither the auto-negotiation-complete
\* nor the link-down bit, the handler leaves link state, speed and duplex
\* mode as they were and does nothing but the read of the interrupt status:
\* no read of the status or mode register, no MAC update, no notification.
HandlerIdleWithoutChange ==
    HandlerSawNoChange =>
        /\ linkState = pre.linkState
        /\ linkSpeed = pre.linkSpeed
        /\ duplexMode = pre.duplexMode
        /\ Len(log) = 1
        /\ log[1].op = "read"
        /\ log[1].regAddr = LAN8700_PHY_REG_ISR

\* The handler ran on an interrupt status with only another bit set, over
\* a link that was up.
HandlerSawOtherInterrupt ==
    /\ HandlerSawNoChange
    /\ log[1].data = 128
    /\ pre.linkState
    /\ linkState

\* C7: with a relevant interrupt bit, a second status read with the link
\* status bit set leaves the link state up and the MAC configuration
\* updated exactly once, whatever the mode register (100BASE-TX full duplex
\* giving 100 Mbps, full); with the bit clear it leaves the link state down
\* and the MAC configuration not updated.
HandlerUpdatesMacOnLinkUp ==
    HandlerSawChange =>
        IF HasBit(log[3].data, BMSR_LINK_STATUS)
        THEN /\ linkState
             /\ Cardinality(Ops("updateMacConfig")) = 1
             /\ ModeField(log[4].data) = PSCSR_HCDSPEED_100BTX_FD =>
                  /\ linkSpeed = NIC_LINK_SPEED_100MBPS
                  /\ duplexMode = NIC_FULL_DUPLEX_MODE
        ELSE /\ ~linkState
             /\ Ops("updateMacConfig") = {}

\* Both status reads showed the link up and the mode register read
\* 100BASE-TX full duplex: up, 100 Mbps, full, one MAC update.
HandlerLinkUp100Full ==
    /\ HandlerSawChange
    /\ HasBit(log[2].data, BMSR_LINK_STATUS)
    /\ HasBit(log[3].data, BMSR_LINK_STATUS)
    /\ log[4].data = PSCSR_HCDSPEED_100BTX_FD
    /\ ~pre.linkState
    /\ linkState
    /\ linkSpeed = NIC_LINK_SPEED_100MBPS
    /\ duplexMode = NIC_FULL_DUPLEX_MODE
    /\ Cardinality(Ops("updateMacConfig")) = 1

\* C8: with a relevant interrupt bit the handler notifies the host of the
\* link change exactly once, link up or down and changed or not, as the
\* last thing it does, and the link state the host then finds is the one
\* evaluated in this call.
HandlerNotifiesOnce ==
    HandlerSawChange =>
        /\ Ops("nicNotifyLinkChange") = {Len(log)}
        /\ log[Len(log)].linkState = HasBit(log[3].data, BMSR_LINK_STATUS)
        /\ log[Len(log)].linkState = linkState

\* The handler found the link up as it was before, and notified the host.
HandlerNotifiedWithoutChange ==
    /\ HandlerSawChange
    /\ pre.linkState
    /\ linkState
    /\ Ops("nicNotifyLinkChange") # {}

\* The writes of the log to register 'reg'.
WritesOf(reg) ==
    {k \in DOMAIN log : log[k].op = "write" /\ log[k].regAddr = reg}

\* C9: lan8700Init returns nothing but NO_ERROR, and when it returns the
\* event flag is set, the host event signalled and the interrupt mask
\* written with the auto-negotiation-complete and link-down bits and no
\* other.
InitReturnsSuccess ==
    /\ result \in {"none", NO_ERROR}
    /\ AtReturnOf("lan8700Init") =>
         /\ result = NO_ERROR
         /\ phyEvent
         /\ netEvent
         /\ Ops("osSetEvent") # {}
         /\ Cardinality(WritesOf(LAN8700_PHY_REG_IMR)) = 1
         /\ \A k \in WritesOf(LAN8700_PHY_REG_IMR) :
              log[k].data = IMR_AN_COMPLETE + IMR_LINK_DOWN

\* lan8700Init returned over an interface whose event flag was clear.
InitReturned ==
    /\ AtReturnOf("lan8700Init")
    /\ ~pre.phyEvent
    /\ ~pre.netEvent
    /\ phyEvent
    /\ result = NO_ERROR

\* The last entry of the log after the step is a read of the control
\* register whose reply has the reset bit as 'set' says.
LastReadReset(set) ==
    /\ Len(log') = Len(log) + 1
    /\ log'[Len(log')].op = "read"
    /\ log'[Len(log')].regAddr = LAN8700_PHY_REG_BMCR
    /\ HasBit(log'[Len(log')].data, BMCR_RESET) = set

\* C10: lan8700Init leaves its wait loop only on a read of the control
\* register with the reset bit clear, stays in it on every read with the
\* bit set, returns no result while it waits, and, the device ending its
\* reset, goes on to return.
InitWaitsForReset ==
    /\ [][pc = "init_wait" =>
            /\ result' = "none"
            /\ pc' \in {"init_wait", "init_dump"}
            /\ pc' = "init_dump" => LastReadReset(FALSE)
            /\ LastReadReset(TRUE) => pc' = "init_wait"]_vars
    /\ (pc = "init_wait") ~> (AtReturnOf("lan8700Init") /\ result = NO_ERROR)

\* lan8700Init left the wait loop after as many reads with the reset bit
\* set as the log keeps.
InitSpunThenLeft ==
    /\ pc = "init_dump"
    /\ SpinReads = MaxSpin + 1


\* The interface fields the driver may write are as the call found them.
InterfaceAsFound ==
    /\ linkState = pre.linkState
    /\ linkSpeed = pre.linkSpeed
    /\ duplexMode = pre.duplexMode
    /\ phyEvent = pre.phyEvent
    /\ netEvent = pre.netEvent

\* C11: with an external interrupt line driver lan8700Tick does nothing: no
\* register access, no host event, and event flag, link state, speed and
\* duplex mode as they were.
TickIdleWhenInterruptDriven ==
    (AtReturnOf("lan8700Tick") /\ extIntDriver) =>
        /\ log = <<>>
        /\ InterfaceAsFound

\* A tick of an interrupt-driven interface whose stored link was up and
\* whose event flag was clear.
TickSkippedPoll ==
    /\ AtReturnOf("lan8700Tick")
    /\ extIntDriver
    /\ pre.linkState
    /\ ~pre.phyEvent
    /\ ~phyEvent
    /\ log = <<>>

\* C12: lan8700EnableIrq and lan8700DisableIrq call the enable, respectively
\* disable, operation of the interrupt line driver once when there is one
\* and nothing when there is none; they access no register and leave link
\* state, speed, duplex mode and event flag as they were.
IrqCallsDelegate ==
    /\ AtReturnOf("lan8700EnableIrq") =>
         /\ log = IF extIntDriver THEN <<ExtIntEnableIrq>> ELSE <<>>
         /\ InterfaceAsFound
    /\ AtReturnOf("lan8700DisableIrq") =>
         /\ log = IF extIntDriver THEN <<ExtIntDisableIrq>> ELSE <<>>
         /\ InterfaceAsFound

\* lan8700DisableIrq returned after one call of the disable operation,
\* over a link that was up.
IrqDisabled ==
    /\ AtReturnOf("lan8700DisableIrq")
    /\ extIntDriver
    /\ Len(log) = 1
    /\ log[1].op = "extIntDriver->disableIrq"
    /\ pre.linkState
    /\ linkState


\* The handler found the link down.
HandlerFoundLinkDown ==
    /\ HandlerSawChange
    /\ ~HasBit(log[3].data, BMSR_LINK_STATUS)

\* The four negotiation results, and the pair of an interface that has
\* none yet.
ValidPairs ==
    {NIC_LINK_SPEED_10MBPS, NIC_LINK_SPEED_100MBPS}
        \X {NIC_HALF_DUPLEX_MODE, NIC_FULL_DUPLEX_MODE}

UnsetPair == <<NIC_LINK_SPEED_UNKNOWN, NIC_UNKNOWN_DUPLEX_MODE>>

\* C13 as stated: a handler that finds the link down discards the
\* negotiated pair, so that the interface no longer holds the pair it held
\* from an earlier link-up.
HandlerDiscardsPairOnLinkDown ==
    (/\ HandlerFoundLinkDown
     /\ pre.linkState
     /\ <<pre.linkSpeed, pre.duplexMode>> \in ValidPairs) =>
        <<linkSpeed, duplexMode>> # <<pre.linkSpeed, pre.duplexMode>>

\* C13, amended: a handler that finds the link down sets the link state to
\* down and leaves speed and duplex mode as they were; the pair is marked
\* stale by the link state alone, which is down when the host is notified,
\* and the MAC is not updated.
HandlerKeepsPairOnLinkDown ==
    HandlerFoundLinkDown =>
        /\ ~linkState
        /\ linkSpeed = pre.linkSpeed
        /\ duplexMode = pre.duplexMode
        /\ Ops("updateMacConfig") = {}
        /\ Ops("nicNotifyLinkChange") = {Len(log)}
        /\ ~log[Len(log)].linkState
        /\ log[Len(log)].linkSpeed = pre.linkSpeed
        /\ log[Len(log)].duplexMode = pre.duplexMode

\* The link went down over an interface that held 100 Mbps full duplex,
\* and the interface still holds it.
HandlerLinkDownAfterUp ==
    /\ HandlerFoundLinkDown
    /\ pre.linkState
    /\ pre.linkSpeed = NIC_LINK_SPEED_100MBPS
    /\ pre.duplexMode = NIC_FULL_DUPLEX_MODE
    /\ ~linkState
    /\ linkSpeed = NIC_LINK_SPEED_100MBPS
    /\ duplexMode = NIC_FULL_DUPLEX_MODE

\* C14 as stated: whenever the stored link state is up, the stored
\* negotiation result is one of the four valid pairs.
LinkUpHasValidPair ==
    linkState => <<linkSpeed, duplexMode>> \in ValidPairs

\* C14, amended: the stored negotiation result is always one of the four
\* valid pairs or still unset; once it is a valid pair it stays one; and
\* when a handler leaves the link up with the result unset, the result was
\* unset before and the mode field read was none of the four encodings.
PairValidOrStillUnset ==
    /\ [](<<linkSpeed, duplexMode>> \in ValidPairs \cup {UnsetPair})
    /\ [][(<<linkSpeed, duplexMode>> \in ValidPairs) =>
             (<<linkSpeed', duplexMode'>> \in ValidPairs)]_vars
    /\ []((HandlerFoundLinkUp /\ <<linkSpeed, duplexMode>> = UnsetPair) =>
            /\ ModeField(log[4].data) \notin ValidModes
            /\ <<pre.linkSpeed, pre.duplexMode>> = UnsetPair)

\* A handler brought the link up and stored a valid pair in an interface
\* that had none.
HandlerStoredFirstPair ==
    /\ HandlerFoundLinkUp
    /\ <<pre.linkSpeed, pre.duplexMode>> = UnsetPair
    /\ linkState
    /\ <<linkSpeed, duplexMode>> \in ValidPairs


\* C15: in lan8700Init the interrupt line driver, if any, is initialised
\* first; the reset is written to the control register before any register
\* is read; the interrupt mask is written only after a read of the control
\* register with the reset bit clear; and the event flag is set, and the
\* host signalled, only after the interrupt mask is written.
InitKeepsOrder ==
    call = "lan8700Init" =>
        /\ Ops("extIntDriver->init") = IF extIntDriver THEN {1} ELSE {}
        /\ \A k \in BusOps :
             \/ /\ k = Cardinality(Ops("extIntDriver->init")) + 1
                /\ log[k].op = "write"
                /\ log[k].regAddr = LAN8700_PHY_REG_BMCR
                /\ log[k].data = BMCR_RESET
             \/ /\ k > Cardinality(Ops("extIntDriver->init")) + 1
                /\ WritesOf(LAN8700_PHY_REG_BMCR) # {}
        /\ \A k \in WritesOf(LAN8700_PHY_REG_IMR) :
             \E j \in ReadsOf(LAN8700_PHY_REG_BMCR) :
                /\ j < k
                /\ ~HasBit(log[j].data, BMCR_RESET)
        /\ \A k \in Ops("osSetEvent") :
             \E j \in WritesOf(LAN8700_PHY_REG_IMR) : j < k
        /\ WritesOf(LAN8700_PHY_REG_IMR) = {} =>
             /\ phyEvent = pre.phyEvent
             /\ netEvent = pre.netEvent

\* lan8700Init of an interface with an interrupt line driver returned after
\* the wait loop went round, over an event flag that was clear.
InitRanInOrder ==
    /\ AtReturnOf("lan8700Init")
    /\ extIntDriver
    /\ \E k \in ReadsOf(LAN8700_PHY_REG_BMCR) :
         HasBit(log[k].data, BMCR_RESET)
    /\ ~pre.phyEvent
    /\ phyEvent

\* C16: every call of the event handler reads the interrupt status register
\* exactly once, as its first register access, and writes no register.
HandlerAcknowledgesFirst ==
    AtReturnOf("lan8700EventHandler") =>
        /\ ReadsOf(LAN8700_PHY_REG_ISR) = {1}
        /\ \A k \in DOMAIN log : log[k].op # "write"

\* A handler call that went through the link-up branch, with its four
\* register reads.
HandlerReadFourRegisters ==
    /\ HandlerFoundLinkUp
    /\ Cardinality(BusOps) = 4
    /\ ReadsOf(LAN8700_PHY_REG_ISR) = {1}

\* C17: on the link-up path the MAC configuration callback finds the link
\* state up and the speed and duplex mode decoded in this call, and it is
\* called after the read of the mode register and before the host is
\* notified of the link change.
HandlerUpdatesMacAfterStore ==
    HandlerFoundLinkUp =>
        /\ Ops("updateMacConfig") = {5}
        /\ log[5].linkState
        /\ log[5].linkSpeed = linkSpeed
        /\ log[5].duplexMode = duplexMode
        /\ ModeField(log[4].data) = PSCSR_HCDSPEED_10BT_FD =>
             /\ log[5].linkSpeed = NIC_LINK_SPEED_10MBPS
             /\ log[5].duplexMode = NIC_FULL_DUPLEX_MODE
        /\ ReadsOf(LAN8700_PHY_REG_PSCSR) = {4}
        /\ Ops("nicNotifyLinkChange") = {6}

\* The link came up at 10 Mbps full duplex over an interface that held the
\* link down and another pair, and the callback found the new values.
HandlerMacSawNewPair ==
    /\ HandlerFoundLinkUp
    /\ ~pre.linkState
    /\ pre.linkSpeed = NIC_LINK_SPEED_100MBPS
    /\ ModeField(log[4].data) = PSCSR_HCDSPEED_10BT_FD
    /\ log[5].op = "updateMacConfig"
    /\ log[5].linkState
    /\ log[5].linkSpeed = NIC_LINK_SPEED_10MBPS


\* C18: a polling tick reads the status register once and accesses no other
\* register; link state, speed and duplex mode are written by the event
\* handler alone; and no call of the driver clears the event flag.
TickOnlyReadsStatus ==
    /\ TickPolled =>
         /\ BusOps = {1}
         /\ ReadsOf(LAN8700_PHY_REG_BMSR) = {1}
    /\ call \notin {"none", "lan8700EventHandler"} =>
         /\ linkState = pre.linkState
         /\ linkSpeed = pre.linkSpeed
         /\ duplexMode = pre.duplexMode
    /\ call # "none" => (pre.phyEvent => phyEvent)

\* A polling tick found the link down over an interface that held it up and
\* whose event flag was set: link state still up, flag still set.
TickLeftLinkState ==
    /\ TickPolled
    /\ pre.linkState
    /\ pre.phyEvent
    /\ ~HasBit(log[1].data, BMSR_LINK_STATUS)
    /\ linkState
    /\ phyEvent

\* The register indexes a call hands to lan8700ReadPhyReg and
\* lan8700WritePhyReg, in the order of the source, once it is about to
\* return; 'n' is the length of the log of lan8700Init.
RegistersAsInSource ==
    /\ AtReturnOf("lan8700Tick") =>
         \A k \in BusOps : log[k].regAddr = LAN8700_PHY_REG_BMSR
    /\ AtReturnOf("lan8700EventHandler") =>
         \A k \in BusOps :
            log[k].regAddr = CASE k = 1 -> LAN8700_PHY_REG_ISR
                               [] k \in {2, 3} -> LAN8700_PHY_REG_BMSR
                               [] OTHER -> LAN8700_PHY_REG_PSCSR
    /\ AtReturnOf("lan8700Init") =>
         LET n == Len(log) IN
         /\ \A r \in 0..31 :
              /\ log[n - 33 + r].op = "read"
              /\ log[n - 33 + r].regAddr = r
         /\ \A k \in BusOps :
              \/ k >= n - 33 /\ k <= n - 2
              \/ k = n - 1 /\ log[k].regAddr = LAN8700_PHY_REG_IMR
              \/ k < n - 33 /\ log[k].regAddr = LAN8700_PHY_REG_BMCR
         /\ \A k \in BusOps :
              log[k].op = "write" =>
                 log[k].data = IF k = n - 1
                               THEN IMR_AN_COMPLETE + IMR_LINK_DOWN
                               ELSE BMCR_RESET

\* C19: every transaction handed to the bus transport has a device address
\* in 0..31, the register index and the data of the source, and a read
\* returns the reply of the transport.
BusGetsValidAddress ==
    /\ \A k \in BusOps :
         /\ log[k].phyAddr \in 0..31
         /\ log[k].op = "read" => log[k].ret = log[k].data
    /\ RegistersAsInSource

\* lan8700Init returned on an interface with the address unset: the dump
\* read every register at the default address, the last one with the value
\* the device held there.
InitDumpedAtDefaultAddress ==
    /\ AtReturnOf("lan8700Init")
    /\ phyAddr = 255
    /\ \A k \in BusOps : log[k].phyAddr = LAN8700_PHY_ADDR
    /\ log[Len(log) - 2].regAddr = 31
    /\ log[Len(log) - 2].ret = 2049 * 31 + 1


\* The stored link state is the one the medium has settled at.
LinkSettled == linkState = hwLink

\* C20 as stated: in poll mode, the link having settled at a status that is
\* not the stored one and the host calling tick and handler, the stored
\* link state eventually is the settled one.
PollReachesSettledLink == <>LinkSettled

\* C20, amended: the stored link state becomes the settled one, and the
\* host is notified, in the first handler call whose interrupt status shows
\* the auto-negotiation-complete or the link-down bit, and stays so; a
\* handler call whose interrupt status shows neither leaves it as it was.
\* Until then every tick raises the event flag again and the host goes on
\* calling the handler.
PollSettlesOnLinkInterrupt ==
    /\ []((TickPolled /\ ~LinkSettled) =>
            (phyEvent /\ Ops("osSetEvent") # {}))
    /\ [](HandlerSawChange =>
            (LinkSettled /\ Ops("nicNotifyLinkChange") # {}))
    /\ [](HandlerSawNoChange => linkState = pre.linkState)
    /\ [][LinkSettled => LinkSettled']_vars
    /\ (~LinkSettled) ~> (LinkSettled \/ AtReturnOf("lan8700EventHandler"))

\* A handler call found the link interrupt and stored the settled link
\* over the other one.
PollHandlerSettled ==
    /\ HandlerSawChange
    /\ pre.linkState # hwLink
    /\ pre.phyEvent
    /\ LinkSettled
    /\ Ops("nicNotifyLinkChange") # {}

====
